---- MODULE Spec2Model ----
(***************************************************************************)
(* rusync, src/sync.rs: the three-stage pipeline                           *)
(*     WalkWorker --(Entry)--> SyncWorker --(Progress)--> ProgressWorker   *)
(* run by Syncer::sync over two unbounded std::sync::mpsc channels.        *)
(*                                                                         *)
(* The source tree, the initial destination tree and the outcome of every  *)
(* external operation (the fault plan) are fixed in the initial state; the *)
(* only nondeterminism of a run is the interleaving of the threads.        *)
(* entry.rs and fsops.rs are not part of the sources at hand: get_rel_path,*)
(* sync_entries and copy_permissions are modelled from their contracts.    *)
(***************************************************************************)
EXTENDS Integers, Sequences, FiniteSets, TLC

\* Bounds of the model.
MaxFaults == 1      \* external operations that fail in one environment
MaxChunks == 1      \* Syncing events sync_entries publishes while copying a file
UsizeBits == 7      \* width of usize, scaled down (100 * (MaxChunks + 1) fits)

(***************************************************************************)
(* The source tree: files a.txt and sub/b.txt, the symlink link -> a.txt,  *)
(* under the directories "." (the source root) and sub.                    *)
(***************************************************************************)
Files == {"a.txt", "sub/b.txt", "link"}
Dirs == {".", "sub"}
Nodes == Files \cup Dirs

IsSymlink(f) == f = "link"

ParentDir(f) == IF f = "sub/b.txt" THEN "sub" ELSE "."

\* The directories create_dir_all has to make for the parent of f.
AncestorDirs(f) == IF ParentDir(f) = "sub" THEN {".", "sub"} ELSE {"."}

\* The order in which fs::read_dir lists a directory.
DirOrder(d) == IF d = "." THEN <<"a.txt", "sub", "link">> ELSE <<"sub/b.txt">>

Trees == {t \in SUBSET (Files \cup {"sub"}) : "sub/b.txt" \in t => "sub" \in t}

(***************************************************************************)
(* The fault plan: which external operation fails on which node.           *)
(***************************************************************************)
\* In WalkWorker: the directory iterator yields Err for the entry (dir_entry),
\* get_rel_path returns Err (w_rel_path) or a path without parent (w_parent).
\* In SyncWorker::sync: the same two for get_rel_path (s_rel_path, s_parent),
\* and create_dir_all, sync_entries or copy_permissions returns Err.
\* zero_size: sync_entries publishes Syncing{size: 0, done: 0} while copying.
\* The plan is a property of the environment: it is the same in a second run.
WalkFileFaults == {"dir_entry", "w_rel_path", "w_parent"}
SyncFaults == {"s_rel_path", "s_parent", "create_dir_all", "sync_entries",
               "copy_permissions"}
FileFaults == WalkFileFaults \cup SyncFaults \cup {"zero_size"}

FaultSites ==
    {<<".", "read_dir">>, <<"sub", "read_dir">>, <<"sub", "dir_entry">>}
        \cup (Files \X FileFaults)

NoFault == [n \in Nodes |-> "none"]

RECURSIVE PlansUpTo(_)
PlansUpTo(m) ==
    IF m = 0 THEN {NoFault}
    ELSE LET P == PlansUpTo(m - 1)
         IN P \cup {[p EXCEPT ![s[1]] = s[2]] :
                        <<p, s>> \in {ps \in P \X FaultSites : ps[1][ps[2][1]] = "none"}}

Plans == PlansUpTo(MaxFaults)

DestStates == {"absent", "same", "differ"}

VARIABLES
    tree,        \* the nodes of the source tree (besides the root)
    plan,        \* node -> the external operation that fails on it, or "none"
    dest,        \* file -> state of its counterpart under the destination root
    dest0,       \* history: dest as it was when Syncer::sync was called
    destDirs,    \* directories that exist under the destination root
    options,     \* Syncer.options: [preserve_permissions]
    run,         \* 1 or 2: which call of Syncer::sync this is
    opc,         \* the caller / Syncer::sync: new, join_walker, join_syncer, join_progress, returned
    result,      \* what Syncer::sync returned
    first,       \* what the first run returned (while run = 2)
    wpc,         \* WalkWorker thread: idle, start, walking, done, panicked
    wstack,      \* the walk_dir frames: [dir, todo]
    walkErr,     \* walk_dir returned Err (the outcome start() looks at)
    entryChan,   \* channel::<Entry>
    spc,         \* SyncWorker thread: idle, recv, send, done, panicked
    scur,        \* the Entry SyncWorker is processing
    soutcome,    \* the outcome of self.sync(&entry, opts)
    syncErr,     \* the step of SyncWorker::sync that returned Err, or "none"
    permCopied,  \* entries copy_permissions was invoked for in this run
    progChan,    \* channel::<Progress>
    ppc,         \* ProgressWorker thread: idle, run, done, panicked
    stats,       \* ProgressWorker's Stats
    published,   \* history: Entries WalkWorker sent, in order
    consumed,    \* history: Entries SyncWorker received, in order
    sentEvents,  \* history: Progress events sent on the Progress channel, in order
    handled      \* history: Progress events ProgressWorker handled, in order

vars == <<tree, plan, dest, dest0, destDirs, options, run, opc, result, first,
          wpc, wstack, walkErr, entryChan, spc, scur, soutcome, syncErr,
          permCopied, progChan, ppc, stats, published, consumed, sentEvents, handled>>

envVars == <<tree, plan>>
callerVars == <<options, run, opc, result, first, dest0>>
walkVars == <<wpc, wstack, walkErr, published>>
syncVars == <<spc, scur, soutcome, syncErr, permCopied, consumed, sentEvents>>
progVars == <<ppc, stats, handled>>
destVars == <<dest, destDirs>>

(***************************************************************************)
(* Stats                                                                   *)
(***************************************************************************)
Stats_new ==
    [total |-> 0, up_to_date |-> 0, copied |-> 0,
     symlink_created |-> 0, symlink_updated |-> 0]

\* Faulty variant: the UpToDate arm counts nothing.
add_outcome_uncounted(s, outcome) ==
    LET t == [s EXCEPT !.total = @ + 1]
    IN CASE outcome = "FileCopied" -> [t EXCEPT !.copied = @ + 1]
         [] outcome = "UpToDate" -> t
         [] outcome = "SymlinkUpdated" -> [t EXCEPT !.symlink_updated = @ + 1]
         [] outcome = "SymlinkCreated" -> [t EXCEPT !.symlink_created = @ + 1]

\* Faulty variant: the UpToDate arm also counts a copy.
add_outcome_two_counters(s, outcome) ==
    LET t == [s EXCEPT !.total = @ + 1]
    IN CASE outcome = "FileCopied" -> [t EXCEPT !.copied = @ + 1]
         [] outcome = "UpToDate" -> [t EXCEPT !.up_to_date = @ + 1, !.copied = @ + 1]
         [] outcome = "SymlinkUpdated" -> [t EXCEPT !.symlink_updated = @ + 1]
         [] outcome = "SymlinkCreated" -> [t EXCEPT !.symlink_created = @ + 1]

\* Faulty variant: the two symlink arms count each other's counter.
add_outcome_symlinks_swapped(s, outcome) ==
    LET t == [s EXCEPT !.total = @ + 1]
    IN CASE outcome = "FileCopied" -> [t EXCEPT !.copied = @ + 1]
         [] outcome = "UpToDate" -> [t EXCEPT !.up_to_date = @ + 1]
         [] outcome = "SymlinkUpdated" -> [t EXCEPT !.symlink_created = @ + 1]
         [] outcome = "SymlinkCreated" -> [t EXCEPT !.symlink_updated = @ + 1]

\* Faulty variant: the FileCopied and UpToDate arms count each other's counter.
add_outcome_files_swapped(s, outcome) ==
    LET t == [s EXCEPT !.total = @ + 1]
    IN CASE outcome = "FileCopied" -> [t EXCEPT !.up_to_date = @ + 1]
         [] outcome = "UpToDate" -> [t EXCEPT !.copied = @ + 1]
         [] outcome = "SymlinkUpdated" -> [t EXCEPT !.symlink_updated = @ + 1]
         [] outcome = "SymlinkCreated" -> [t EXCEPT !.symlink_created = @ + 1]

add_outcome(s, outcome) ==
    LET t == [s EXCEPT !.total = @ + 1]
    IN CASE outcome = "FileCopied" -> [t EXCEPT !.copied = @ + 1]
         [] outcome = "UpToDate" -> [t EXCEPT !.up_to_date = @ + 1]
         [] outcome = "SymlinkUpdated" -> [t EXCEPT !.symlink_updated = @ + 1]
         [] outcome = "SymlinkCreated" -> [t EXCEPT !.symlink_created = @ + 1]

SyncOptions_new == [preserve_permissions |-> TRUE]

\* Progress
DoneSyncing(f, outcome) ==
    [type |-> "DoneSyncing", entry |-> f, outcome |-> outcome, size |-> 0, done |-> 0]

Syncing(f, size, done) ==
    [type |-> "Syncing", entry |-> f, outcome |-> "none", size |-> size, done |-> done]

NoResult == [ok |-> FALSE, msg |-> "none", stats |-> Stats_new]
Ok(s) == [ok |-> TRUE, msg |-> "", stats |-> s]
Err(m) == [ok |-> FALSE, msg |-> m, stats |-> Stats_new]

Terminated(pc) == pc \in {"done", "panicked"}

\* Faulty variant: a Sender<Entry> outlives the WalkWorker thread.
EntrySenderAlive_leaked == TRUE

\* Faulty variant: ProgressWorker takes an empty channel for the end of the
\* stream (try_iter in place of iter).
ProgressSenderAlive_ignored == FALSE

\* Faulty variant: the Receiver<Progress> outlives the ProgressWorker thread.
ProgressReceiverAlive_kept == TRUE

\* A thread that has ended, normally or by a panic, has dropped its worker and
\* with it the worker's channel ends.
EntrySenderAlive == ~Terminated(wpc)
EntryReceiverAlive == ~Terminated(spc)
ProgressSenderAlive == ~Terminated(spc)
ProgressReceiverAlive == ~Terminated(ppc)

\* Faulty variant: the newest item is handed out first.
Recv_newest(ch) == ch[Len(ch)]

\* Faulty variant: taking an item loses the one behind it.
RecvRest_skip(ch) == IF Len(ch) > 1 THEN Tail(Tail(ch)) ELSE Tail(ch)

\* Receiver::iter(): the next item, in the order sent.
Recv(ch) == Head(ch)
RecvRest(ch) == Tail(ch)

(***************************************************************************)
(* The initial state: a Syncer constructed over some source tree, some     *)
(* destination tree and some environment, Syncer::sync not yet called.     *)
(***************************************************************************)
Init ==
    /\ tree \in Trees
    /\ plan \in Plans
    /\ \A n \in Nodes : plan[n] # "none" => n = "." \/ n \in tree
    /\ dest \in [Files -> DestStates]
    /\ \A f \in Files : f \notin tree => dest[f] = "absent"
    /\ dest0 = dest
    /\ destDirs = UNION {AncestorDirs(f) : f \in {g \in Files : dest[g] # "absent"}}
    /\ options = SyncOptions_new
    /\ run = 1
    /\ opc = "new"
    /\ result = NoResult
    /\ first = NoResult
    /\ wpc = "idle" /\ wstack = <<>> /\ walkErr = FALSE
    /\ entryChan = <<>>
    /\ spc = "idle" /\ scur = "none" /\ soutcome = "none" /\ syncErr = "none"
    /\ permCopied = {}
    /\ progChan = <<>>
    /\ ppc = "idle" /\ stats = Stats_new
    /\ published = <<>> /\ consumed = <<>> /\ sentEvents = <<>> /\ handled = <<>>

(***************************************************************************)
(* The caller and Syncer                                                   *)
(***************************************************************************)
Syncer_preserve_permissions(b) ==
    /\ opc = "new"
    /\ options' = [options EXCEPT !.preserve_permissions = b]
    /\ UNCHANGED <<envVars, destVars, dest0, run, opc, result, first, walkVars, entryChan,
                   syncVars, progChan, progVars>>

\* Syncer::sync up to the three thread::spawn calls.
Syncer_sync ==
    /\ opc = "new"
    /\ opc' = "join_walker"
    /\ entryChan' = <<>>
    /\ progChan' = <<>>
    /\ wpc' = "start"
    /\ spc' = "recv"
    /\ ppc' = "run"
    /\ dest0' = dest
    /\ UNCHANGED <<envVars, destVars, options, run, result, first, wstack, walkErr,
                   published, scur, soutcome, syncErr, permCopied, consumed,
                   sentEvents, stats, handled>>

Syncer_join_walker ==
    /\ opc = "join_walker"
    /\ Terminated(wpc)
    /\ opc' = "join_syncer"
    /\ UNCHANGED <<envVars, destVars, dest0, options, run, result, first, walkVars, entryChan,
                   syncVars, progChan, progVars>>

Syncer_join_syncer ==
    /\ opc = "join_syncer"
    /\ Terminated(spc)
    /\ opc' = "join_progress"
    /\ UNCHANGED <<envVars, destVars, dest0, options, run, result, first, walkVars, entryChan,
                   syncVars, progChan, progVars>>

\* Faulty variant: the syncer thread's join outcome is not looked at.
sync_result_unchecked(walker, syncer, progress, s) ==
    IF walker = "panicked" THEN Err("Could not join walker thread")
    ELSE IF progress = "panicked" THEN Err("Could not join progress thread")
    ELSE Ok(s)

\* The value Syncer::sync returns from the three join outcomes.
sync_result(walker, syncer, progress, s) ==
    IF walker = "panicked" THEN Err("Could not join walker thread")
    ELSE IF syncer = "panicked" THEN Err("Could not join syncer thread")
    ELSE IF progress = "panicked" THEN Err("Could not join progress thread")
    ELSE Ok(s)

Syncer_join_progress ==
    /\ opc = "join_progress"
    /\ Terminated(ppc)
    /\ result' = sync_result(wpc, spc, ppc, stats)
    /\ opc' = "returned"
    /\ UNCHANGED <<envVars, destVars, dest0, options, run, first, walkVars, entryChan,
                   syncVars, progChan, progVars>>

\* After a run that returned Ok the caller runs the sync again: a new Syncer
\* over the same two paths.
Syncer_new ==
    /\ opc = "returned"
    /\ result.ok
    /\ run = 1
    /\ run' = 2
    /\ first' = result
    /\ result' = NoResult
    /\ opc' = "new"
    /\ options' = SyncOptions_new
    /\ wpc' = "idle" /\ wstack' = <<>> /\ walkErr' = FALSE /\ published' = <<>>
    /\ entryChan' = <<>>
    /\ spc' = "idle" /\ scur' = "none" /\ soutcome' = "none" /\ syncErr' = "none"
    /\ permCopied' = {} /\ consumed' = <<>> /\ sentEvents' = <<>>
    /\ progChan' = <<>>
    /\ ppc' = "idle" /\ stats' = Stats_new /\ handled' = <<>>
    /\ UNCHANGED <<envVars, destVars, dest0>>

(***************************************************************************)
(* WalkWorker                                                              *)
(***************************************************************************)
\* fs::read_dir(d): the entries of d, in directory order.
read_dir(d) == SelectSeq(DirOrder(d), LAMBDA n : n \in tree)

\* A walk_dir whose loop has no entry left returns Ok(()) to its caller.
RECURSIVE Returned(_)
Returned(stack) ==
    IF stack # <<>> /\ stack[Len(stack)].todo = <<>>
    THEN Returned(SubSeq(stack, 1, Len(stack) - 1))
    ELSE stack

\* Faulty variant: the Err is kept but the loop goes on with the next entry of
\* the directory.
WalkFails_subtree_only ==
    /\ wstack' = Returned(Append(SubSeq(wstack, 1, Len(wstack) - 1),
                                 [wstack[Len(wstack)] EXCEPT !.todo = Tail(@)]))
    /\ walkErr' = TRUE
    /\ UNCHANGED <<wpc, published, entryChan>>

\* walk_dir or process_file returned Err: `?` unwinds every walk_dir frame.
WalkFails ==
    /\ wstack' = <<>>
    /\ walkErr' = TRUE
    /\ UNCHANGED <<wpc, published, entryChan>>

\* start(): the call of walk_dir on the source root, up to its read_dir.
WalkWorker_start ==
    /\ wpc = "start"
    /\ wpc' = "walking"
    /\ IF plan["."] = "read_dir"
       THEN /\ wstack' = <<>>
            /\ walkErr' = TRUE
       ELSE /\ wstack' = Returned(<<[dir |-> ".", todo |-> read_dir(".")]>>)
            /\ UNCHANGED walkErr
    /\ UNCHANGED <<envVars, destVars, callerVars, published, entryChan, syncVars,
                   progChan, progVars>>

\* process_file: the Entry is sent, or the unwrap of a failed send panics.
process_file(f, rest) ==
    IF plan[f] \in {"w_rel_path", "w_parent"}
    THEN WalkFails
    ELSE IF EntryReceiverAlive
    THEN /\ entryChan' = Append(entryChan, f)
         /\ published' = Append(published, f)
         /\ wstack' = Returned(rest)
         /\ UNCHANGED <<wpc, walkErr>>
    ELSE /\ wpc' = "panicked"
         /\ wstack' = <<>>
         /\ UNCHANGED <<walkErr, published, entryChan>>

\* One iteration of the loop of the innermost walk_dir.
WalkWorker_walk_dir ==
    /\ wpc = "walking"
    /\ wstack # <<>>
    /\ LET top == wstack[Len(wstack)]
           below == SubSeq(wstack, 1, Len(wstack) - 1)
           e == Head(top.todo)
           rest == Append(below, [top EXCEPT !.todo = Tail(@)])
       IN IF plan[e] = "dir_entry"
          THEN WalkFails
          ELSE IF e \in Dirs
          THEN IF plan[e] = "read_dir"
               THEN WalkFails
               ELSE /\ wstack' = Returned(Append(rest, [dir |-> e, todo |-> read_dir(e)]))
                    /\ UNCHANGED <<wpc, walkErr, published, entryChan>>
          ELSE process_file(e, rest)
    /\ UNCHANGED <<envVars, destVars, callerVars, syncVars, progChan, progVars>>

\* start() after walk_dir returned: an Err is looked at and dropped; the thread
\* ends and the worker, with its Sender<Entry>, is dropped.
WalkWorker_finish ==
    /\ wpc = "walking"
    /\ wstack = <<>>
    /\ wpc' = "done"
    /\ UNCHANGED <<envVars, destVars, callerVars, wstack, walkErr, published,
                   entryChan, syncVars, progChan, progVars>>

(***************************************************************************)
(* SyncWorker                                                              *)
(***************************************************************************)
\* fsops::sync_entries: what it does to a destination in state d.
sync_entries(f, d) ==
    IF IsSymlink(f)
    THEN CASE d = "absent" -> "SymlinkCreated"
           [] d = "differ" -> "SymlinkUpdated"
           [] d = "same" -> "UpToDate"
    ELSE IF d = "same" THEN "UpToDate" ELSE "FileCopied"

\* The Syncing events sync_entries publishes for f before it returns.
syncing_events(f, outcome) ==
    IF outcome # "FileCopied" THEN <<>>
    ELSE IF plan[f] = "zero_size" THEN <<Syncing(f, 0, 0)>>
    ELSE [i \in 1..MaxChunks |-> Syncing(f, MaxChunks, i)]

\* for entry in self.input.iter() ends: the channel is empty and its Sender is
\* gone.  start() returns and the worker is dropped.
SyncWorker_start ==
    /\ spc = "recv"
    /\ entryChan = <<>>
    /\ ~EntrySenderAlive
    /\ spc' = "done"
    /\ UNCHANGED <<envVars, destVars, callerVars, walkVars, entryChan, scur, soutcome,
                   syncErr, permCopied, consumed, sentEvents, progChan, progVars>>

\* Faulty variant: the Err of self.sync is replaced by an outcome (unwrap_or)
\* and the loop goes on to publish DoneSyncing.
SyncPanics_swallowed(step) ==
    /\ syncErr' = step
    /\ spc' = "send"
    /\ entryChan' = RecvRest(entryChan)
    /\ soutcome' = "UpToDate"

\* self.sync(&entry, opts) returned Err(step): the unwrap panics, the thread
\* unwinds and drops the worker with its Receiver<Entry> and Sender<Progress>.
SyncPanics(step) ==
    /\ syncErr' = step
    /\ spc' = "panicked"
    /\ entryChan' = <<>>
    /\ UNCHANGED soutcome

\* Faulty variant: the permissions are copied whatever the option says.
copy_permissions_called_always(opts) == TRUE

\* if opts.preserve_permissions { fsops::copy_permissions(...)?; }
copy_permissions_called(opts) == opts.preserve_permissions

\* Faulty variant: the Entries are handed out only once the walk is over
\* (the stream is collected before it is processed).
next_entry_ready_after_walk == entryChan # <<>> /\ Terminated(wpc)

\* self.input.iter() yields the next Entry as soon as one is queued.
next_entry_ready == entryChan # <<>>

\* The loop takes the next Entry: self.sync(&entry, opts).unwrap()
SyncWorker_sync ==
    /\ spc = "recv"
    /\ next_entry_ready
    /\ scur' = Recv(entryChan)
    /\ consumed' = Append(consumed, Recv(entryChan))
    /\ LET f == Recv(entryChan)
           outcome == sync_entries(f, dest[f])
           \* a send to a channel whose Receiver is gone delivers nothing
           events == IF ProgressReceiverAlive THEN syncing_events(f, outcome) ELSE <<>>
       IN IF plan[f] \in {"s_rel_path", "s_parent", "create_dir_all"}
          THEN /\ SyncPanics(plan[f])
               /\ UNCHANGED <<destVars, permCopied, sentEvents, progChan>>
          ELSE /\ destDirs' = destDirs \cup AncestorDirs(f)
               /\ IF plan[f] = "sync_entries"
                  THEN /\ SyncPanics(plan[f])
                       /\ \E d \in {dest[f]} \cup (IF dest[f] = "same" THEN {} ELSE {"differ"}) :
                              dest' = [dest EXCEPT ![f] = d]
                       /\ UNCHANGED <<permCopied, sentEvents, progChan>>
                  ELSE /\ dest' = [dest EXCEPT ![f] = "same"]
                       /\ sentEvents' = sentEvents \o events
                       /\ IF copy_permissions_called(options) /\ plan[f] = "copy_permissions"
                          THEN /\ SyncPanics(plan[f])
                               /\ progChan' = progChan \o events
                               /\ permCopied' = permCopied \cup {f}
                          ELSE /\ permCopied' = IF copy_permissions_called(options)
                                                THEN permCopied \cup {f} ELSE permCopied
                               /\ progChan' = progChan \o events
                               /\ soutcome' = outcome
                               /\ spc' = "send"
                               /\ entryChan' = RecvRest(entryChan)
                               /\ UNCHANGED syncErr
    /\ UNCHANGED <<envVars, callerVars, walkVars, progVars>>

\* self.output.send(Progress::DoneSyncing(sync_outcome)).unwrap()
SyncWorker_send ==
    /\ spc = "send"
    /\ IF ProgressReceiverAlive
       THEN /\ progChan' = Append(progChan, DoneSyncing(scur, soutcome))
            /\ sentEvents' = Append(sentEvents, DoneSyncing(scur, soutcome))
            /\ spc' = "recv"
            /\ scur' = "none"
            /\ soutcome' = "none"
            /\ UNCHANGED entryChan
       ELSE /\ spc' = "panicked"
            /\ entryChan' = <<>>
            /\ UNCHANGED <<progChan, sentEvents, scur, soutcome>>
    /\ UNCHANGED <<envVars, destVars, callerVars, walkVars, syncErr, permCopied,
                   consumed, progVars>>

(***************************************************************************)
(* ProgressWorker                                                          *)
(***************************************************************************)
\* usize arithmetic: the values are 0 .. UsizeMax.
UsizeMax == 2 ^ UsizeBits - 1

\* done * 100 does not fit in a usize.
mul_overflows(done) == done * 100 > UsizeMax

\* ((done * 100) as usize) / size, the product wrapped to the width of usize.
percent(done, size) == ((done * 100) % (UsizeMax + 1)) \div size

\* One iteration of for progress in self.input.iter(), or the return of stats
\* once the channel is empty and its Sender is gone.  A division by zero panics.
\* A product that overflows panics in a build with overflow checks and wraps
\* in a build without them.
ProgressWorker_start ==
    /\ ppc = "run"
    /\ IF progChan # <<>>
       THEN LET progress == Recv(progChan)
            IN /\ handled' = Append(handled, progress)
               /\ IF progress.type = "DoneSyncing"
                  THEN /\ stats' = add_outcome(stats, progress.outcome)
                       /\ progChan' = RecvRest(progChan)
                       /\ UNCHANGED ppc
                  ELSE IF progress.size = 0
                  THEN /\ ppc' = "panicked"
                       /\ progChan' = <<>>
                       /\ UNCHANGED stats
                  ELSE /\ \E overflow_checks \in
                              (IF mul_overflows(progress.done) THEN BOOLEAN ELSE {FALSE}) :
                              IF overflow_checks
                              THEN /\ ppc' = "panicked"
                                   /\ progChan' = <<>>
                              ELSE /\ percent(progress.done, progress.size) \in 0..UsizeMax
                                   /\ progChan' = RecvRest(progChan)
                                   /\ UNCHANGED ppc
                       /\ UNCHANGED stats
       ELSE /\ ~ProgressSenderAlive
            /\ ppc' = "done"
            /\ UNCHANGED <<stats, handled, progChan>>
    /\ UNCHANGED <<envVars, destVars, callerVars, walkVars, entryChan, syncVars>>

(***************************************************************************)
(* The specification                                                       *)
(***************************************************************************)
WalkWorker == WalkWorker_start \/ WalkWorker_walk_dir \/ WalkWorker_finish

SyncWorker == SyncWorker_start \/ SyncWorker_sync \/ SyncWorker_send

Join == Syncer_join_walker \/ Syncer_join_syncer \/ Syncer_join_progress

Next ==
    \/ \E b \in BOOLEAN : Syncer_preserve_permissions(b)
    \/ Syncer_sync
    \/ WalkWorker
    \/ SyncWorker
    \/ ProgressWorker_start
    \/ Join
    \/ Syncer_new

Spec == Init /\ [][Next]_vars

\* Every spawned thread is scheduled, and the caller's joins return once the
\* joined thread has ended.
FairSpec ==
    /\ Spec
    /\ WF_vars(WalkWorker)
    /\ WF_vars(SyncWorker)
    /\ WF_vars(ProgressWorker_start)
    /\ WF_vars(Join)

(***************************************************************************)
(* ProgressWorker alone, over every Syncing sequence a producer that keeps *)
(* its contract can send for one file: size > 0, done strictly increasing, *)
(* done <= size, all values of usize.  WalkWorker and SyncWorker have      *)
(* ended; the Progress channel holds the events and the final DoneSyncing. *)
(***************************************************************************)
PercentInit ==
    /\ tree = {"a.txt"}
    /\ plan = NoFault
    /\ dest = [f \in Files |-> IF f = "a.txt" THEN "same" ELSE "absent"]
    /\ dest0 = [f \in Files |-> "absent"]
    /\ destDirs = {"."}
    /\ options = SyncOptions_new
    /\ run = 1
    /\ opc = "join_progress"
    /\ result = NoResult
    /\ first = NoResult
    /\ wpc = "done" /\ wstack = <<>> /\ walkErr = FALSE
    /\ entryChan = <<>>
    /\ spc = "done" /\ scur = "none" /\ soutcome = "none" /\ syncErr = "none"
    /\ permCopied = {"a.txt"}
    /\ \E size \in 1..UsizeMax : \E d1 \in 0..size : \E d2 \in (d1 + 1)..size :
           progChan = <<Syncing("a.txt", size, d1), Syncing("a.txt", size, d2),
                        DoneSyncing("a.txt", "FileCopied")>>
    /\ ppc = "run" /\ stats = Stats_new
    /\ published = <<"a.txt">> /\ consumed = <<"a.txt">>
    /\ sentEvents = progChan /\ handled = <<>>

PercentSpec == PercentInit /\ [][ProgressWorker_start]_vars

(***************************************************************************)
(* Properties                                                              *)
(***************************************************************************)
AllEnded == Terminated(wpc) /\ Terminated(spc) /\ Terminated(ppc)

NonePanicked == wpc # "panicked" /\ spc # "panicked" /\ ppc # "panicked"

IsPrefix(s, t) == Len(s) <= Len(t) /\ SubSeq(t, 1, Len(s)) = s

\* The entries of the DoneSyncing events of a sequence of Progress events.
DoneEvents(evs) == SelectSeq(evs, LAMBDA e : e.type = "DoneSyncing")
DoneEntries(evs) == [i \in 1..Len(DoneEvents(evs)) |-> DoneEvents(evs)[i].entry]

StatsSum(s) == s.up_to_date + s.copied + s.symlink_created + s.symlink_updated

\* C1: under fair scheduling of the three workers, a call of Syncer::sync
\* returns, with WalkWorker, SyncWorker and ProgressWorker all ended: no worker
\* stays blocked on a receive and the caller does not stay blocked on a join,
\* whatever the source tree and whichever external operations fail.
C1_SyncReturns == (opc = "join_walker") ~> (opc = "returned" /\ AllEnded)

\* A run that returned although SyncWorker panicked on its second Entry.
C1_Witness ==
    /\ opc = "returned"
    /\ AllEnded
    /\ spc = "panicked"
    /\ Len(consumed) >= 2

\* C2: when Syncer::sync returns Ok(stats), stats.total is the number of
\* Entries WalkWorker published; each was received once by SyncWorker, had one
\* DoneSyncing sent for it, and that event was applied once by add_outcome.
C2_TotalCountsPublished ==
    (opc = "returned" /\ result.ok) =>
        /\ result.stats.total = Len(published)
        /\ consumed = published
        /\ DoneEntries(sentEvents) = published
        /\ DoneEntries(handled) = published
        /\ entryChan = <<>>
        /\ progChan = <<>>

C2_Witness ==
    /\ opc = "returned"
    /\ result.ok
    /\ Len(published) = 3
    /\ result.stats.total = 3

\* C3: total == up_to_date + copied + symlink_created + symlink_updated in
\* every state of ProgressWorker's Stats and in the Stats Syncer::sync returns.
C3_TotalIsSum ==
    /\ stats.total = StatsSum(stats)
    /\ (opc = "returned" /\ result.ok) => result.stats.total = StatsSum(result.stats)

\* ProgressWorker between two events, with outcomes of three kinds counted.
C3_Witness ==
    /\ ppc = "run"
    /\ stats.total = 3
    /\ stats.copied = 1
    /\ stats.up_to_date = 1
    /\ stats.symlink_updated = 1

\* C4: a failure of one step of SyncWorker::sync (get_rel_path, the parent
\* path, create_dir_all, sync_entries, copy_permissions) fails only that Entry:
\* SyncWorker does not end abnormally, every published Entry is still
\* received, and the run does not return an orchestration error for it.
C4_EntryFailureIsolated ==
    syncErr # "none" =>
        /\ spc # "panicked"
        /\ (opc = "returned" /\ wpc = "done") => (result.ok /\ consumed = published)

\* C5: a run whose walk_dir returned an error does not return Ok(Stats), which
\* carries nothing that tells it from a walk without error.
C5_WalkErrorSurfaced == (opc = "returned" /\ walkErr) => ~result.ok

JoinMessages ==
    {"Could not join walker thread", "Could not join syncer thread",
     "Could not join progress thread"}

\* C6: Syncer::sync returns Ok(Stats), with ProgressWorker's Stats, exactly
\* when no worker thread panicked; otherwise it returns Err with one of the
\* three orchestration messages and no Stats.
C6_OkIffNoPanic ==
    opc = "returned" =>
        /\ result.ok <=> NonePanicked
        /\ result.ok => result = Ok(stats)
        /\ ~result.ok => (result.msg \in JoinMessages /\ result.stats = Stats_new)

\* Only ProgressWorker panicked, with outcomes already counted, and the run
\* returned the progress thread's error.
C6_Witness ==
    /\ opc = "returned"
    /\ ppc = "panicked"
    /\ wpc = "done"
    /\ spc = "done"
    /\ stats.total >= 1
    /\ result = Err("Could not join progress thread")

(***************************************************************************)
(* The result of the run in which each stage runs to its end before the    *)
(* next one starts: a function of the source tree, the destination as it   *)
(* was at the call, the options and the fault plan.                        *)
(***************************************************************************)
RECURSIVE WalkList(_)
\* The Entries walk_dir publishes for a list of directory entries, and whether
\* it returns Err.
WalkList(todo) ==
    IF todo = <<>> THEN [entries |-> <<>>, err |-> FALSE]
    ELSE LET e == Head(todo)
             failed == [entries |-> <<>>, err |-> TRUE]
             after(pre) ==
                 IF pre.err THEN pre
                 ELSE LET r == WalkList(Tail(todo))
                      IN [entries |-> pre.entries \o r.entries, err |-> r.err]
         IN IF plan[e] = "dir_entry" THEN failed
            ELSE IF e \in Dirs
            THEN IF plan[e] = "read_dir" THEN failed
                 ELSE after(WalkList(read_dir(e)))
            ELSE IF plan[e] \in {"w_rel_path", "w_parent"} THEN failed
            ELSE after([entries |-> <<e>>, err |-> FALSE])

Walked ==
    IF plan["."] = "read_dir" THEN [entries |-> <<>>, err |-> TRUE]
    ELSE WalkList(read_dir("."))

\* SyncWorker::sync fails on f.
SyncFailsOn(f) ==
    \/ plan[f] \in {"s_rel_path", "s_parent", "create_dir_all", "sync_entries"}
    \/ plan[f] = "copy_permissions" /\ options.preserve_permissions

\* sync_entries publishes a Syncing event of size 0 for f.
ZeroSizeOn(f) ==
    plan[f] = "zero_size" /\ sync_entries(f, dest0[f]) = "FileCopied"

RECURSIVE Tally(_, _)
Tally(s, fs) ==
    IF fs = <<>> THEN s
    ELSE Tally(add_outcome(s, sync_entries(Head(fs), dest0[Head(fs)])), Tail(fs))

SequentialResult ==
    LET es == Walked.entries
    IN IF \E i \in 1..Len(es) : SyncFailsOn(es[i])
       THEN Err("Could not join syncer thread")
       ELSE IF \E i \in 1..Len(es) : ZeroSizeOn(es[i])
       THEN Err("Could not join progress thread")
       ELSE Ok(Tally(Stats_new, es))

\* C7: for a fixed source tree, destination tree and fault plan, the result of
\* Syncer::sync is the same in every interleaving of the three workers: it is
\* the result of the run in which the stages run one after the other.
C7_ResultDeterministic == opc = "returned" => result = SequentialResult

\* C8: SyncWorker receives the Entries in the order WalkWorker published them,
\* ProgressWorker receives the Progress events in the order SyncWorker sent
\* them, and the k-th DoneSyncing handled is that of the k-th Entry published.
C8_Fifo ==
    /\ IsPrefix(consumed, published)
    /\ EntryReceiverAlive => consumed \o entryChan = published
    /\ IsPrefix(handled, sentEvents)
    /\ IsPrefix(DoneEntries(handled), published)
    /\ IsPrefix(DoneEntries(sentEvents), consumed)

\* Three Entries went through both channels, Syncing events among them.
C8_Witness ==
    /\ Len(DoneEntries(handled)) = 3
    /\ Len(handled) > 3
    /\ DoneEntries(handled) = <<"a.txt", "sub/b.txt", "link">>

\* A run without failure: the walk returned Ok and no thread panicked.
NoFailure == ~walkErr /\ NonePanicked

SourceFiles == tree \cap Files

\* Source files by what their destination was when the run started.
ToCopy == {f \in SourceFiles : ~IsSymlink(f) /\ dest0[f] # "same"}
Matching == {f \in SourceFiles : dest0[f] = "same"}
LinksAbsent == {f \in SourceFiles : IsSymlink(f) /\ dest0[f] = "absent"}
LinksElsewhere == {f \in SourceFiles : IsSymlink(f) /\ dest0[f] = "differ"}

\* C9: after a run without failure each counter is the number of source files
\* of its class, and every source file and its directory is at the
\* destination; {a.txt, sub/b.txt, link -> a.txt} into an empty destination
\* gives {total 3, copied 2, symlink_created 1, up_to_date 0, symlink_updated 0};
\* an empty source directory gives Ok with all counters zero.
C9_CountersMatchClasses ==
    (opc = "returned" /\ NoFailure) =>
        /\ result.ok
        /\ result.stats.total = Cardinality(SourceFiles)
        /\ result.stats.copied = Cardinality(ToCopy)
        /\ result.stats.up_to_date = Cardinality(Matching)
        /\ result.stats.symlink_created = Cardinality(LinksAbsent)
        /\ result.stats.symlink_updated = Cardinality(LinksElsewhere)
        /\ \A f \in SourceFiles : dest[f] = "same" /\ AncestorDirs(f) \subseteq destDirs
        /\ (SourceFiles = Files /\ \A f \in Files : dest0[f] = "absent") =>
               /\ result.stats = [total |-> 3, copied |-> 2, symlink_created |-> 1,
                                  up_to_date |-> 0, symlink_updated |-> 0]
               /\ destDirs = {".", "sub"}
        /\ SourceFiles = {} => result = Ok(Stats_new)

\* The run of {a.txt, sub/b.txt, link -> a.txt} into an empty destination has
\* returned without failure.
C9_Witness ==
    /\ opc = "returned"
    /\ run = 1
    /\ NoFailure
    /\ SourceFiles = Files
    /\ \A f \in Files : dest0[f] = "absent"
    /\ result.stats.copied = 2
    /\ result.stats.symlink_created = 1

ZeroSized(evs) == SelectSeq(evs, LAMBDA e : e.type = "Syncing" /\ e.size = 0)

\* C11: a Syncing event with size == 0 does not make ProgressWorker fail:
\* ProgressWorker goes on to the later events and the run, when nothing else
\* fails, returns Ok(Stats).
C11_ZeroSizeTolerated ==
    ZeroSized(handled) # <<>> =>
        /\ ppc # "panicked"
        /\ (opc = "returned" /\ syncErr = "none") => result.ok

\* The Syncing events among a sequence of Progress events.
SyncingEvents(evs) == SelectSeq(evs, LAMBDA e : e.type = "Syncing")

\* The producer contract for the Syncing events of one file.
ProducerContract(evs) ==
    LET sy == SyncingEvents(evs)
    IN /\ \A i \in 1..Len(sy) : sy[i].size > 0 /\ sy[i].done <= sy[i].size
       /\ \A i, j \in 1..Len(sy) :
              (i < j /\ sy[i].entry = sy[j].entry) => sy[i].done < sy[j].done

\* C12: for Syncing events that keep the producer contract, the percentage
\* ProgressWorker computes in usize arithmetic never exceeds 100 and never
\* decreases within one file, whatever usize values done and size take.
C12_PercentMonotone ==
    LET sy == SyncingEvents(handled)
    IN ProducerContract(handled) =>
           /\ \A i \in 1..Len(sy) : percent(sy[i].done, sy[i].size) <= 100
           /\ \A i, j \in 1..Len(sy) :
                  (i < j /\ sy[i].entry = sy[j].entry) =>
                      percent(sy[i].done, sy[i].size) <= percent(sy[j].done, sy[j].size)

\* The Entries whose sync got as far as the permissions step in this run.
ReachedPermissions ==
    {f \in Files : /\ \E i \in 1..Len(consumed) : consumed[i] = f
                   /\ plan[f] \notin {"s_rel_path", "s_parent", "create_dir_all",
                                      "sync_entries"}}

PermissionsFollowOption ==
    permCopied = IF opc # "new" /\ options.preserve_permissions
                 THEN ReachedPermissions ELSE {}

\* C13: copy_permissions is invoked for an Entry exactly when the option
\* preserve_permissions is set.  The option is true from construction, changes
\* only by Syncer::preserve_permissions before sync is called, and so is the
\* same for every Entry of a run; while it is false no Entry's permissions are
\* copied.
C13_PermissionsIffOption ==
    /\ options = SyncOptions_new
    /\ []PermissionsFollowOption
    /\ [][options' # options =>
              \/ opc = "new" /\ opc' = "new"
              \/ opc = "returned" /\ opc' = "new" /\ options' = SyncOptions_new]_vars

C13_Witness ==
    /\ ~options.preserve_permissions
    /\ opc = "returned"
    /\ result.ok
    /\ Len(consumed) >= 2
    /\ permCopied = {}

OutcomeCounters == {"up_to_date", "copied", "symlink_created", "symlink_updated"}

\* The counter that stands for an outcome.
CounterOf(outcome) ==
    CASE outcome = "UpToDate" -> "up_to_date"
      [] outcome = "FileCopied" -> "copied"
      [] outcome = "SymlinkCreated" -> "symlink_created"
      [] outcome = "SymlinkUpdated" -> "symlink_updated"

\* This step is ProgressWorker handling a DoneSyncing event.
HandlesDoneSyncing ==
    /\ Len(handled') = Len(handled) + 1
    /\ handled'[Len(handled')].type = "DoneSyncing"

\* This step constructs the Syncer, and so the Stats, of the next run.
StartsNextRun == opc = "returned" /\ opc' = "new"

\* C14: within a run Stats changes only when ProgressWorker handles a
\* DoneSyncing event; such a step adds 1 to total and 1 to exactly the counter
\* of the event's outcome; every other step (a Syncing event, any step of
\* WalkWorker, SyncWorker or the caller) leaves the five counters as they
\* are; no counter ever decreases.
C14_StatsFrame ==
    [][IF StartsNextRun THEN stats' = Stats_new
       ELSE IF HandlesDoneSyncing
       THEN /\ stats'.total = stats.total + 1
            /\ \A c \in OutcomeCounters :
                   stats'[c] = stats[c] +
                       (IF c = CounterOf(handled'[Len(handled')].outcome) THEN 1 ELSE 0)
       ELSE stats' = stats]_vars

C14_Witness ==
    /\ stats.copied >= 1
    /\ stats.up_to_date >= 1
    /\ stats.symlink_created >= 1
    /\ SyncingEvents(handled) # <<>>
    /\ ppc = "run"

\* C15: a consumer sees the end of its stream only after its producer has
\* ended and after it has received every item sent.  SyncWorker leaves its
\* loop normally only when WalkWorker has ended (also after an aborted walk)
\* and the Entry channel is empty; ProgressWorker returns its Stats only when
\* SyncWorker has ended and the Progress channel is empty; a consumer that
\* ends normally leaves no sent item unconsumed.
C15_EndOfStream ==
    /\ spc = "done" =>
           /\ Terminated(wpc)
           /\ entryChan = <<>>
           /\ consumed = published
    /\ ppc = "done" =>
           /\ Terminated(spc)
           /\ progChan = <<>>
           /\ handled = sentEvents

C15_Witness ==
    /\ walkErr
    /\ spc = "done"
    /\ ppc = "done"
    /\ Len(consumed) >= 1
    /\ Len(handled) >= 2

\* SyncWorker has taken the Entry f from the channel in this run.
Consumed(f) == \E i \in 1..Len(consumed) : consumed[i] = f

\* The Progress events sent for the Entry f in this run.
EventsOf(f) == SelectSeq(sentEvents, LAMBDA e : e.entry = f)

DonePublished(f) == DoneEvents(EventsOf(f)) # <<>>

\* C16: SyncWorker runs the steps of an Entry in the order relative path,
\* create_dir_all, sync_entries, copy_permissions (when the option is set),
\* publish DoneSyncing, and a failing step ends the sequence.  A step before
\* sync_entries that fails leaves the destination file, the permissions and
\* the Progress channel untouched; sync_entries acts only under an existing
\* parent directory; DoneSyncing is published only after every step succeeded,
\* never for an Entry whose sync_entries or copy_permissions failed, although
\* the destination may already be modified.
C16_StepOrder ==
    \A f \in Files :
        /\ (Consumed(f) /\ plan[f] \in {"s_rel_path", "s_parent", "create_dir_all"}) =>
               /\ dest[f] = dest0[f]
               /\ f \notin permCopied
               /\ EventsOf(f) = <<>>
        /\ (Consumed(f) /\ plan[f] = "sync_entries") =>
               /\ f \notin permCopied
               /\ ~DonePublished(f)
        /\ (Consumed(f) /\ plan[f] = "copy_permissions" /\ options.preserve_permissions) =>
               /\ dest[f] = "same"
               /\ f \in permCopied
               /\ ~DonePublished(f)
        /\ (dest[f] # dest0[f] \/ EventsOf(f) # <<>> \/ f \in permCopied) =>
               AncestorDirs(f) \subseteq destDirs
        /\ DonePublished(f) =>
               /\ dest[f] = "same"
               /\ options.preserve_permissions => f \in permCopied

C16_Witness ==
    /\ plan["sub/b.txt"] = "copy_permissions"
    /\ Consumed("sub/b.txt")
    /\ dest0["sub/b.txt"] = "absent"
    /\ dest["sub/b.txt"] = "same"
    /\ "sub" \in destDirs
    /\ SyncingEvents(EventsOf("sub/b.txt")) # <<>>
    /\ spc = "panicked"
    /\ DonePublished("a.txt")
    /\ run = 1

\* C17: the stages overlap.  SyncWorker never waits for the walk to complete:
\* whenever it is at the head of its loop and an Entry is queued it can take
\* and process that Entry, whatever WalkWorker is doing.  (The state in which
\* ProgressWorker has handled a DoneSyncing while WalkWorker still has nodes to
\* enumerate is C17_Witness.)
C17_NoBarrier ==
    (spc = "recv" /\ entryChan # <<>>) => ENABLED SyncWorker_sync

C17_Witness ==
    /\ plan = NoFault
    /\ wpc = "walking"
    /\ wstack # <<>>
    /\ DoneEvents(handled) # <<>>

\* The position of the Entry f in the order WalkWorker published (0: not published).
PublishedAt(f) ==
    IF \E k \in 1..Len(published) : published[k] = f
    THEN CHOOSE k \in 1..Len(published) : published[k] = f
    ELSE 0

\* The Entries with a Progress event sent but no DoneSyncing yet.
InProgress == {f \in Files : EventsOf(f) # <<>> /\ ~DonePublished(f)}

\* C18: the Progress events of different Entries are never interleaved.
\* ProgressWorker receives the events grouped by Entry, in the order the
\* Entries were published: every Syncing event of the k-th Entry comes after
\* the DoneSyncing of the (k-1)-th and before the DoneSyncing of the k-th; at
\* most one Entry is in progress at any time.
C18_NoInterleaving ==
    /\ \A i, j \in 1..Len(handled) :
           i < j =>
               /\ PublishedAt(handled[i].entry) >= 1
               /\ PublishedAt(handled[i].entry) <= PublishedAt(handled[j].entry)
               /\ handled[i].type = "DoneSyncing" =>
                      PublishedAt(handled[i].entry) < PublishedAt(handled[j].entry)
    /\ Cardinality(InProgress) <= 1

C18_Witness ==
    \E i, j, k \in 1..Len(handled) :
        /\ i < j /\ j < k
        /\ handled[i] = Syncing("a.txt", MaxChunks, 1)
        /\ handled[j].type = "DoneSyncing" /\ handled[j].entry = "a.txt"
        /\ handled[k].type = "Syncing" /\ handled[k].entry = "sub/b.txt"

\* C19: a failure propagates upstream.  Once a consumer has ended, its
\* producer's next send fails and the producer panics: nothing is queued for a
\* consumer that is gone, WalkWorker panics only on such a send, a SyncWorker
\* that takes an Entry after ProgressWorker ended gets no further than the send
\* of that Entry's DoneSyncing and panics there, so at most the one Entry in
\* flight is processed after ProgressWorker failed and none is published
\* after WalkWorker's first failed send.
C19_FailurePropagates ==
    [][~StartsNextRun =>
           /\ published' # published => ~Terminated(spc)
           /\ sentEvents' # sentEvents => ~Terminated(ppc)
           /\ (wpc # "panicked" /\ wpc' = "panicked") =>
                  (Terminated(spc) /\ published' = published)
           /\ wpc = "panicked" => published' = published
           /\ (Terminated(ppc) /\ consumed' # consumed) =>
                  (spc = "recv" /\ spc' \in {"send", "panicked"})
           /\ (Terminated(ppc) /\ spc = "send") =>
                  (consumed' = consumed /\ spc' \in {"send", "panicked"})]_vars

C19_Witness ==
    /\ tree = Files \cup {"sub"}
    /\ ppc = "panicked"
    /\ spc = "panicked"
    /\ syncErr = "none"
    /\ wpc = "panicked"
    /\ Len(consumed) = 2
    /\ Len(published) = 2

\* After a failure in walk_dir or process_file: no walk_dir frame is left,
\* WalkWorker has not panicked and can return from start(); once the run has
\* returned with the other two workers intact, every Entry published before
\* the failure has been synced and counted.
WalkAborted ==
    walkErr =>
        /\ wstack = <<>>
        /\ wpc \in {"walking", "done"}
        /\ wpc = "walking" => ENABLED WalkWorker_finish
        /\ (opc = "returned" /\ spc # "panicked" /\ ppc # "panicked") =>
               /\ result.ok
               /\ consumed = published
               /\ DoneEntries(handled) = published
               /\ result.stats.total = Len(published)
               /\ \A i \in 1..Len(published) : dest[published[i]] = "same"

\* C20: after the first failure inside walk_dir or process_file WalkWorker
\* publishes no further Entry, neither from the failing subtree nor from any
\* sibling not yet visited; it ends without panicking, which closes the Entry
\* channel; the Entries published before the failure are still synced and
\* counted.
C20_WalkAborts ==
    /\ []WalkAborted
    /\ [][(walkErr /\ ~StartsNextRun) => (walkErr' /\ published' = published)]_vars

C20_Witness ==
    /\ tree = Files \cup {"sub"}
    /\ plan["sub"] # "none"
    /\ walkErr
    /\ opc = "returned"
    /\ result.ok
    /\ published = <<"a.txt">>
    /\ result.stats.total = 1

====
